---- MODULE Spec2Model ----
(***************************************************************************)
(* Model of the kill-process engine (src-tauri/src/lib.rs): the two output *)
(* parsers, the four commands built on them, and the external commands     *)
(* (lsof, ps, kill) each call spawns.                                      *)
(*                                                                         *)
(* A Rust string is a sequence of one-character strings, so that parsing,  *)
(* splitting, lower-casing and substring search are computed character by  *)
(* character.  An Option is a sequence of length 0 (None) or 1 (Some).     *)
(* A formatted message is the record [fmt, args] of its format! template   *)
(* and the values substituted into it.                                     *)
(***************************************************************************)
EXTENDS Integers, Sequences, FiniteSets, TLC

(***************************************************************************)
(* Bounds of the model.                                                    *)
(***************************************************************************)
\* Largest number of lines of a tool's output.
MaxLines == 4
\* Largest number of lines after the header in the output of the per-process
\* lsof call of get_process_port.
MaxPortLines == 2

(***************************************************************************)
(* Characters and the std string functions the source calls.               *)
(***************************************************************************)
NL == "\n"

\* char::is_whitespace, on the characters of the model
Whitespace == {" ", "\t", NL}

Digits == {"0", "1", "2", "3", "4", "5", "6", "7", "8", "9"}

DigitVal(c) ==
    CASE c = "0" -> 0 [] c = "1" -> 1 [] c = "2" -> 2 [] c = "3" -> 3
      [] c = "4" -> 4 [] c = "5" -> 5 [] c = "6" -> 6 [] c = "7" -> 7
      [] c = "8" -> 8 [] c = "9" -> 9

\* char::to_lowercase, on the letters of the model
LowerChar(c) ==
    CASE c = "A" -> "a" [] c = "B" -> "b" [] OTHER -> c

\* str::to_lowercase
ToLowercase(s) == [i \in 1..Len(s) |-> LowerChar(s[i])]

\* the same text as a TLA+ string (for command arguments)
RECURSIVE Str(_)
Str(s) == IF s = <<>> THEN "" ELSE Head(s) \o Str(Tail(s))

\* str::contains(&str): the empty needle is contained in every string
Contains(hay, needle) ==
    \E i \in 0..Len(hay) :
        /\ i + Len(needle) <= Len(hay)
        /\ \A k \in 1..Len(needle) : hay[i + k] = needle[k]

\* str::trim().is_empty()
TrimIsEmpty(s) == \A i \in 1..Len(s) : s[i] \in Whitespace

\* str::lines(): split at "\n"; a final line without terminator counts,
\* an empty remainder after the last terminator does not.
RECURSIVE LinesFrom(_, _, _)
LinesFrom(s, cur, acc) ==
    IF s = <<>>
    THEN IF cur = <<>> THEN acc ELSE Append(acc, cur)
    ELSE IF Head(s) = NL
         THEN LinesFrom(Tail(s), <<>>, Append(acc, cur))
         ELSE LinesFrom(Tail(s), Append(cur, Head(s)), acc)

Lines(s) == LinesFrom(s, <<>>, <<>>)

\* str::split_whitespace().collect(): the maximal runs of non-whitespace
RECURSIVE SplitFrom(_, _, _)
SplitFrom(s, cur, acc) ==
    IF s = <<>>
    THEN IF cur = <<>> THEN acc ELSE Append(acc, cur)
    ELSE IF Head(s) \in Whitespace
         THEN SplitFrom(Tail(s), <<>>,
                        IF cur = <<>> THEN acc ELSE Append(acc, cur))
         ELSE SplitFrom(Tail(s), Append(cur, Head(s)), acc)

SplitWhitespace(s) == SplitFrom(s, <<>>, <<>>)

\* str::trim
RECURSIVE TrimStart(_)
TrimStart(s) ==
    IF s # <<>> /\ Head(s) \in Whitespace THEN TrimStart(Tail(s)) ELSE s

RECURSIVE TrimEnd(_)
TrimEnd(s) ==
    IF s # <<>> /\ s[Len(s)] \in Whitespace
    THEN TrimEnd(SubSeq(s, 1, Len(s) - 1)) ELSE s

Trim(s) == TrimEnd(TrimStart(s))

\* str::find(char): 0-based index of the first occurrence, as an Option
Find(s, c) ==
    IF \E i \in 1..Len(s) : s[i] = c
    THEN <<(CHOOSE i \in 1..Len(s) :
                s[i] = c /\ \A j \in 1..(i - 1) : s[j] # c) - 1>>
    ELSE <<>>

\* str::split(c).last(): the text after the last occurrence of c
RECURSIVE AfterLast(_, _, _)
AfterLast(s, c, cur) ==
    IF s = <<>> THEN cur
    ELSE IF Head(s) = c THEN AfterLast(Tail(s), c, <<>>)
    ELSE AfterLast(Tail(s), c, Append(cur, Head(s)))

SplitLast(s, c) == AfterLast(s, c, <<>>)

\* <[&str]>::join
RECURSIVE Join(_, _)
Join(parts, sep) ==
    IF parts = <<>> THEN <<>>
    ELSE IF Len(parts) = 1 THEN parts[1]
    ELSE parts[1] \o sep \o Join(Tail(parts), sep)

(***************************************************************************)
(* u16::from_str and str::parse::<u32>.  An unsigned parse accepts one     *)
(* optional leading "+", then one or more decimal digits whose value does   *)
(* not exceed the type's maximum; "-" is not a digit.  The value is kept   *)
(* as its decimal digits, which is what formatting it prints.              *)
(***************************************************************************)
U16MaxDigits == <<"6", "5", "5", "3", "5">>
U32MaxDigits == <<"4", "2", "9", "4", "9", "6", "7", "2", "9", "5">>

RECURSIVE StripZeros(_)
StripZeros(ds) ==
    IF Len(ds) > 1 /\ Head(ds) = "0" THEN StripZeros(Tail(ds)) ELSE ds

\* a <= b for digit strings of equal length
RECURSIVE DigitsLeq(_, _)
DigitsLeq(a, b) ==
    IF a = <<>> THEN TRUE
    ELSE IF DigitVal(Head(a)) < DigitVal(Head(b)) THEN TRUE
    ELSE IF DigitVal(Head(a)) > DigitVal(Head(b)) THEN FALSE
    ELSE DigitsLeq(Tail(a), Tail(b))

ParseUnsigned(s, maxDigits) ==
    LET body == IF s # <<>> /\ Head(s) = "+" THEN Tail(s) ELSE s
        val  == StripZeros(body)
    IN  IF \/ body = <<>>
           \/ \E i \in 1..Len(body) : body[i] \notin Digits
        THEN [ok |-> FALSE, val |-> <<>>]
        ELSE IF \/ Len(val) < Len(maxDigits)
                \/ Len(val) = Len(maxDigits) /\ DigitsLeq(val, maxDigits)
             THEN [ok |-> TRUE, val |-> val]
             ELSE [ok |-> FALSE, val |-> <<>>]

ParseU16(s) == ParseUnsigned(s, U16MaxDigits)
ParseU32(s) == ParseUnsigned(s, U32MaxDigits)

(***************************************************************************)
(* Values of the data model (lib.rs lines 5-35).                           *)
(***************************************************************************)
None == <<>>
Some(v) == <<v>>

\* format!(fmt, args...): the template and the texts substituted into it
Msg(fmt, args) == [fmt |-> fmt, args |-> args]

Unknown == <<"U", "n", "k", "n", "o", "w", "n">>

ProcessInfo(pid, name, port) == [pid |-> pid, name |-> name, port |-> port]

PortCheckResult(is_occupied, processes, error) ==
    [is_occupied |-> is_occupied, processes |-> processes, error |-> error]

ProcessSearchResult(processes, error) ==
    [processes |-> processes, error |-> error]

\* Result<T, String>
Ok(v) == [ok |-> TRUE, val |-> v]
Err(m) == [ok |-> FALSE, val |-> m]

(***************************************************************************)
(* The output parsers.                                                     *)
(***************************************************************************)
\* Variant of LsofLoop: deduplicates by process name instead of process id.
RECURSIVE LsofLoopDedupByName(_, _, _, _)
LsofLoopDedupByName(lines, port, processes, seen_pids) ==
    IF lines = <<>> THEN processes
    ELSE LET parts == SplitWhitespace(Head(lines))
         IN  IF Len(parts) >= 2 /\ parts[1] \notin seen_pids
             THEN LsofLoopDedupByName(Tail(lines), port,
                      Append(processes, ProcessInfo(parts[2], parts[1], port)),
                      seen_pids \cup {parts[1]})
             ELSE LsofLoopDedupByName(Tail(lines), port, processes, seen_pids)

\* Variant of LsofLoop: gives up at the first malformed line.
RECURSIVE LsofLoopStopAtMalformed(_, _, _, _)
LsofLoopStopAtMalformed(lines, port, processes, seen_pids) ==
    IF lines = <<>> THEN processes
    ELSE LET parts == SplitWhitespace(Head(lines))
         IN  IF Len(parts) < 2 THEN processes
             ELSE IF parts[2] \notin seen_pids
             THEN LsofLoopStopAtMalformed(Tail(lines), port,
                      Append(processes, ProcessInfo(parts[2], parts[1], port)),
                      seen_pids \cup {parts[2]})
             ELSE LsofLoopStopAtMalformed(Tail(lines), port, processes, seen_pids)

\* Variant of LsofLoop: takes the port from the last field of the line.
RECURSIVE LsofLoopPortFromLine(_, _, _, _)
LsofLoopPortFromLine(lines, port, processes, seen_pids) ==
    IF lines = <<>> THEN processes
    ELSE LET parts == SplitWhitespace(Head(lines))
         IN  IF Len(parts) >= 2 /\ parts[2] \notin seen_pids
             THEN LsofLoopPortFromLine(Tail(lines), port,
                      Append(processes,
                             ProcessInfo(parts[2], parts[1],
                                         SplitLast(parts[Len(parts)], ":"))),
                      seen_pids \cup {parts[2]})
             ELSE LsofLoopPortFromLine(Tail(lines), port, processes, seen_pids)

\* the loop of parse_lsof_output over the lines after the header
RECURSIVE LsofLoop(_, _, _, _)
LsofLoop(lines, port, processes, seen_pids) ==
    IF lines = <<>> THEN processes
    ELSE LET parts == SplitWhitespace(Head(lines))
         IN  IF Len(parts) >= 2
             THEN LET name == parts[1]
                      pid  == parts[2]
                  IN  IF pid \notin seen_pids
                      THEN LsofLoop(Tail(lines), port,
                                    Append(processes, ProcessInfo(pid, name, port)),
                                    seen_pids \cup {pid})
                      ELSE LsofLoop(Tail(lines), port, processes, seen_pids)
             ELSE LsofLoop(Tail(lines), port, processes, seen_pids)

\* Iterator::skip(1)
Skip1(seq) == IF seq = <<>> THEN <<>> ELSE Tail(seq)

parse_lsof_output(output, port) ==
    LsofLoop(Skip1(Lines(output)), port, <<>>, {})

\* Variant of PsLoop: compares the command name without lower-casing it.
RECURSIVE PsLoopCaseSensitive(_, _, _)
PsLoopCaseSensitive(lines, search_name_lower, processes) ==
    IF lines = <<>> THEN processes
    ELSE LET parts == SplitWhitespace(Head(lines))
         IN  IF Len(parts) >= 2 /\ Contains(parts[2], search_name_lower)
             THEN PsLoopCaseSensitive(Tail(lines), search_name_lower,
                      Append(processes, ProcessInfo(parts[1], parts[2], Unknown)))
             ELSE PsLoopCaseSensitive(Tail(lines), search_name_lower, processes)

\* the loop of parse_ps_output over all lines
RECURSIVE PsLoop(_, _, _)
PsLoop(lines, search_name_lower, processes) ==
    IF lines = <<>> THEN processes
    ELSE LET parts == SplitWhitespace(Head(lines))
         IN  IF Len(parts) >= 2
             THEN LET pid     == parts[1]
                      command == parts[2]
                  IN  IF Contains(ToLowercase(command), search_name_lower)
                      THEN PsLoop(Tail(lines), search_name_lower,
                                  Append(processes, ProcessInfo(pid, command, Unknown)))
                      ELSE PsLoop(Tail(lines), search_name_lower, processes)
             ELSE PsLoop(Tail(lines), search_name_lower, processes)

parse_ps_output(output, search_name) ==
    PsLoop(Lines(output), ToLowercase(search_name), <<>>)

(***************************************************************************)
(* Inputs: the texts a tool can print, the strings a caller can pass, and  *)
(* the ways a spawned command can end.                                     *)
(***************************************************************************)
\* lines a tool prints: empty, one token, name/pid pairs that share a pid,
\* leading and repeated whitespace, a third token, mixed case
LinePalette ==
    { <<>>,
      <<"a">>,
      <<"a", " ", "1">>,
      <<"B", " ", "1">>,
      <<" ", "b", "\t", "2", " ", "a">>,
      <<"2", " ", "A", "b">> }

SeqsUpTo(S, n) == UNION { [1..k -> S] : k \in 0..n }

Texts == { Join(ls, <<NL>>) : ls \in SeqsUpTo(LinePalette, MaxLines) }

PortLabels == { <<"8", "0">>, <<"1">> }

SearchNames ==
    { <<>>, <<" ">>, <<"\t", " ">>, <<"a">>, <<"A", "B">>, <<"1">>, <<" ", "a">> }

PortArgs ==
    { <<>>, <<"a", "b", "c">>, <<"-", "1">>, <<"8", " ", "0">>,
      <<"1", "2", ".", "3", "4">>, <<"6", "5", "5", "3", "6">>,
      <<"9", "9", "9", "9", "9", "9">>, <<"+">>,
      <<"0">>, <<"8", "0">>, <<"+", "8", "0">>, <<"0", "8", "0">>,
      <<"6", "5", "5", "3", "5">> }

PidArgs ==
    { <<>>, <<"a", "b", "c">>, <<"1", "2", ".", "3", "4">>, <<"-", "1">>,
      <<"9", "9", "9", "9", "9", "9", "9", "9", "9", "9", "9">>,
      <<"4", "2", "9", "4", "9", "6", "7", "2", "9", "6">>,
      <<"1", "e", "5">>, <<"1", "2", "3", "p", "i", "d">>,
      <<"1", ".", "5">>, <<"p", "i", "d", "1", "2", "3">>,
      <<" ", "1", "2", "3", " ">>,
      <<"0">>, <<"1">>, <<"1", "2", "3">>, <<"+", "5">>,
      <<"4", "2", "9", "4", "9", "6", "7", "2", "9", "5">> }

\* `ps -p <pid> -o pid=,comm=,user=,args=`: nothing, three fields, four, more
BasicOutputs ==
    { <<>>,
      <<"1", " ", "a", " ", "u", NL>>,
      <<"1", " ", "a", " ", "u", " ", "/", "a", NL>>,
      <<" ", " ", "1", " ", "a", " ", "u", " ", "/", "a", " ", "-", "b", NL>> }

\* `ps -p <pid> -o pid=,pcpu=,pmem=`: two fields, three
ResourceOutputs ==
    { <<"1", " ", "0", ".", "0", NL>>,
      <<" ", "1", " ", " ", "0", ".", "0", " ", "1", ".", "5", NL>> }

\* `ps -p <pid> -o pid=,lstart=`: no space, a tab only, one space, more text
TimeOutputs ==
    { <<"1", NL>>,
      <<"1", "\t", "M", NL>>,
      <<"1", " ", "M", NL>>,
      <<" ", "1", " ", "M", " ", " ", "J", NL>> }

\* lines of `lsof -p <pid> -P -n -iTCP` after the header: the ninth field
\* holds address:port; fewer fields, a service name, a second address, a
\* repeated port, a trailing state, an IPv6 address
PortLinePalette ==
    { <<"n", " ", "1", " ", "u", " ", "f", " ", "4", " ", "d", " ", "0", " ",
        "T", " ", "*", ":", "8", "0">>,
      <<"n", " ", "1", " ", "u", " ", "f", " ", "6", " ", "d", " ", "0", " ",
        "T", " ", "[", ":", ":", "1", "]", ":", "0", "8", "0", " ", "(", "L", ")">>,
      <<"n", " ", "1", " ", "u", " ", "f", " ", "4", " ", "d", " ", "0", " ",
        "T", " ", "*", ":", "h", "t", "t", "p">>,
      <<"n", " ", "1", " ", "u", " ", "f", " ", "4", " ", "d", " ", "0", " ",
        "T", " ", "h", ":", "8", "1", "-", ">", "p", ":", "9", "9">>,
      <<"n", " ", "1", " ", "u", " ", "f", " ", "4", " ", "d", " ",
        "T", " ", "*", ":", "2", "2">>,
      <<"n", " ", "1", " ", "u", " ", "1", ":", "7", " ", "4", " ", "d", " ", "0", " ",
        "T", " ", "x">> }

PortHeader == <<"C", " ", "P">>

PortTexts ==
    { <<>> } \cup
    { Join(<<PortHeader>> \o ls, <<NL>>) : ls \in SeqsUpTo(PortLinePalette, MaxPortLines) }

\* std::io::Error texts and stderr texts
IoErrors == { <<"n", "f">> }
Stderrs == { <<>>, <<"x">> }

\* Command::output(): Err(e), or Ok with a failing or a successful status
SpawnErr(e) == [status |-> "spawn_err", stdout |-> <<>>, stderr |-> <<>>, err |-> e]
ExitFail(se) == [status |-> "exit_fail", stdout |-> <<>>, stderr |-> se, err |-> <<>>]
ExitOk(so) == [status |-> "ok", stdout |-> so, stderr |-> <<>>, err |-> <<>>]

Failures == { SpawnErr(e) : e \in IoErrors } \cup { ExitFail(se) : se \in Stderrs }

TextRuns == Failures \cup { ExitOk(t) : t \in Texts }

\* `kill` prints nothing on success
KillRuns == Failures \cup { ExitOk(<<>>) }

BasicRuns == Failures \cup { ExitOk(t) : t \in BasicOutputs }
ResourceRuns == Failures \cup { ExitOk(t) : t \in ResourceOutputs }
TimeRuns == Failures \cup { ExitOk(t) : t \in TimeOutputs }
\* lsof can print sockets and still exit with a failing status
PortFailedWithOutput ==
    [status |-> "exit_fail",
     stdout |-> Join(<<PortHeader,
                       <<"n", " ", "1", " ", "u", " ", "f", " ", "4", " ", "d", " ",
                         "0", " ", "T", " ", "*", ":", "8", "0">> >>, <<NL>>),
     stderr |-> <<"x">>, err |-> <<>>]

PortRuns == Failures \cup { PortFailedWithOutput } \cup { ExitOk(t) : t \in PortTexts }

\* one spawned command: the program, its arguments, and how it ended
Cmd(prog, args, run) == [prog |-> prog, args |-> args, run |-> run]

(***************************************************************************)
(* The commands.  Each returns its result and the commands it spawned.     *)
(***************************************************************************)
LsofPortCmd(port_num, run) ==
    Cmd("lsof", <<"-i", ":" \o Str(port_num.val), "-P", "-n", "-sTCP:LISTEN">>, run)

\* Variant of check_port: reports the port occupied whenever lsof succeeds.
check_port_occupied_on_success(port, run) ==
    LET port_num == ParseU16(port)
        cmd == LsofPortCmd(port_num, run)
    IN  IF ~port_num.ok
        THEN [ret |-> PortCheckResult(FALSE, <<>>,
                                      Some(Msg("Invalid port number", <<>>))),
              io |-> <<>>]
        ELSE IF run.status = "spawn_err"
        THEN [ret |-> PortCheckResult(FALSE, <<>>,
                          Some(Msg("Failed to execute lsof: {}", <<Str(run.err)>>))),
              io |-> <<cmd>>]
        ELSE IF run.status = "ok"
        THEN [ret |-> PortCheckResult(TRUE, parse_lsof_output(run.stdout, port), None),
              io |-> <<cmd>>]
        ELSE [ret |-> PortCheckResult(FALSE, <<>>, None),
              io |-> <<cmd>>]

\* Variant of check_port: spawns lsof with the raw text before validating it.
check_port_spawn_first(port, run) ==
    LET port_num == ParseU16(port)
        cmd == Cmd("lsof", <<"-i", ":" \o Str(port), "-P", "-n", "-sTCP:LISTEN">>, run)
    IN  IF ~port_num.ok
        THEN [ret |-> PortCheckResult(FALSE, <<>>,
                                      Some(Msg("Invalid port number", <<>>))),
              io |-> <<cmd>>]
        ELSE IF run.status = "spawn_err"
        THEN [ret |-> PortCheckResult(FALSE, <<>>,
                          Some(Msg("Failed to execute lsof: {}", <<Str(run.err)>>))),
              io |-> <<cmd>>]
        ELSE IF run.status = "ok"
        THEN LET processes == parse_lsof_output(run.stdout, port)
             IN  [ret |-> PortCheckResult(processes # <<>>, processes, None),
                  io |-> <<cmd>>]
        ELSE [ret |-> PortCheckResult(FALSE, <<>>, None),
              io |-> <<cmd>>]

\* Variant of check_port: reports a failing exit status of lsof as an error.
check_port_exit_fail_is_error(port, run) ==
    LET port_num == ParseU16(port)
        cmd == LsofPortCmd(port_num, run)
    IN  IF ~port_num.ok
        THEN [ret |-> PortCheckResult(FALSE, <<>>,
                                      Some(Msg("Invalid port number", <<>>))),
              io |-> <<>>]
        ELSE IF run.status = "spawn_err"
        THEN [ret |-> PortCheckResult(FALSE, <<>>,
                          Some(Msg("Failed to execute lsof: {}", <<Str(run.err)>>))),
              io |-> <<cmd>>]
        ELSE IF run.status = "ok"
        THEN LET processes == parse_lsof_output(run.stdout, port)
             IN  [ret |-> PortCheckResult(processes # <<>>, processes, None),
                  io |-> <<cmd>>]
        ELSE [ret |-> PortCheckResult(FALSE, <<>>,
                          Some(Msg("Failed to execute lsof: {}", <<Str(run.stderr)>>))),
              io |-> <<cmd>>]

check_port(port, run) ==
    LET port_num == ParseU16(port)
        cmd == LsofPortCmd(port_num, run)
    IN  IF ~port_num.ok
        THEN [ret |-> PortCheckResult(FALSE, <<>>,
                                      Some(Msg("Invalid port number", <<>>))),
              io |-> <<>>]
        ELSE IF run.status = "spawn_err"
        THEN [ret |-> PortCheckResult(FALSE, <<>>,
                          Some(Msg("Failed to execute lsof: {}", <<Str(run.err)>>))),
              io |-> <<cmd>>]
        ELSE IF run.status = "ok"
        THEN LET processes == parse_lsof_output(run.stdout, port)
             IN  [ret |-> PortCheckResult(processes # <<>>, processes, None),
                  io |-> <<cmd>>]
        ELSE [ret |-> PortCheckResult(FALSE, <<>>, None),
              io |-> <<cmd>>]

\* Variant of search_processes_by_name: treats a failing exit status of ps
\* as "nothing found", the way check_port treats lsof.
search_exit_fail_no_error(process_name, run) ==
    LET cmd == Cmd("ps", <<"-A", "-o", "pid=,comm=">>, run)
    IN  IF TrimIsEmpty(process_name)
        THEN [ret |-> ProcessSearchResult(<<>>,
                          Some(Msg("Process name cannot be empty", <<>>))),
              io |-> <<>>]
        ELSE IF run.status = "spawn_err"
        THEN [ret |-> ProcessSearchResult(<<>>,
                          Some(Msg("Failed to execute ps command: {}", <<Str(run.err)>>))),
              io |-> <<cmd>>]
        ELSE IF run.status = "ok"
        THEN [ret |-> ProcessSearchResult(
                          parse_ps_output(run.stdout, process_name), None),
              io |-> <<cmd>>]
        ELSE [ret |-> ProcessSearchResult(<<>>, None), io |-> <<cmd>>]

\* Variant of search_processes_by_name: a blank name sets the error but does
\* not return; ps still runs and its output is still parsed.
search_blank_name_continues(process_name, run) ==
    LET cmd == Cmd("ps", <<"-A", "-o", "pid=,comm=">>, run)
        blank == IF TrimIsEmpty(process_name)
                 THEN Some(Msg("Process name cannot be empty", <<>>))
                 ELSE None
    IN  IF run.status = "spawn_err"
        THEN [ret |-> ProcessSearchResult(<<>>,
                          Some(Msg("Failed to execute ps command: {}", <<Str(run.err)>>))),
              io |-> <<cmd>>]
        ELSE IF run.status = "ok"
        THEN [ret |-> ProcessSearchResult(
                          parse_ps_output(run.stdout, process_name), blank),
              io |-> <<cmd>>]
        ELSE [ret |-> ProcessSearchResult(<<>>,
                          Some(Msg("Failed to execute ps command: {}", <<Str(run.stderr)>>))),
              io |-> <<cmd>>]

search_processes_by_name(process_name, run) ==
    LET cmd == Cmd("ps", <<"-A", "-o", "pid=,comm=">>, run)
    IN  IF TrimIsEmpty(process_name)
        THEN [ret |-> ProcessSearchResult(<<>>,
                          Some(Msg("Process name cannot be empty", <<>>))),
              io |-> <<>>]
        ELSE IF run.status = "spawn_err"
        THEN [ret |-> ProcessSearchResult(<<>>,
                          Some(Msg("Failed to execute ps command: {}", <<Str(run.err)>>))),
              io |-> <<cmd>>]
        ELSE IF run.status = "ok"
        THEN [ret |-> ProcessSearchResult(
                          parse_ps_output(run.stdout, process_name), None),
              io |-> <<cmd>>]
        ELSE [ret |-> ProcessSearchResult(<<>>,
                          Some(Msg("Failed to execute ps command: {}", <<Str(run.stderr)>>))),
              io |-> <<cmd>>]

\* Variant of kill_process_with_signal: no validation of the pid.
kill_unvalidated(pid, force, run) ==
    LET signal_arg == IF force THEN "-9" ELSE "-15"
        verb == IF force THEN "force kill" ELSE "gracefully terminate"
        action == IF force THEN "force killed" ELSE "gracefully terminated"
        cmd == Cmd("kill", <<signal_arg, Str(pid)>>, run)
    IN  IF run.status = "spawn_err"
        THEN [ret |-> Err(Msg("Failed to execute kill command: {}",
                              <<Str(run.err)>>)),
              io |-> <<cmd>>]
        ELSE IF run.status = "ok"
        THEN [ret |-> Ok(Msg("Process {} {} successfully", <<Str(pid), action>>)),
              io |-> <<cmd>>]
        ELSE [ret |-> Err(Msg("Failed to {} process {}: {}",
                              <<verb, Str(pid), Str(run.stderr)>>)),
              io |-> <<cmd>>]

\* Variant of kill_process_with_signal: when the graceful signal fails, it
\* sends SIGKILL as well.
kill_escalates(pid, force, run) ==
    LET signal_arg == IF force THEN "-9" ELSE "-15"
        verb == IF force THEN "force kill" ELSE "gracefully terminate"
        action == IF force THEN "force killed" ELSE "gracefully terminated"
        cmd == Cmd("kill", <<signal_arg, Str(pid)>>, run)
    IN  IF ~ParseU32(pid).ok
        THEN [ret |-> Err(Msg("Invalid PID format: {}", <<Str(pid)>>)),
              io |-> <<>>]
        ELSE IF run.status = "spawn_err"
        THEN [ret |-> Err(Msg("Failed to execute kill command: {}",
                              <<Str(run.err)>>)),
              io |-> <<cmd>>]
        ELSE IF run.status = "ok"
        THEN [ret |-> Ok(Msg("Process {} {} successfully", <<Str(pid), action>>)),
              io |-> <<cmd>>]
        ELSE [ret |-> Err(Msg("Failed to {} process {}: {}",
                              <<verb, Str(pid), Str(run.stderr)>>)),
              io |-> IF force THEN <<cmd>>
                     ELSE <<cmd, Cmd("kill", <<"-9", Str(pid)>>, run)>>]

\* Variant of kill_process_with_signal: reports success whenever kill could
\* be spawned, whatever its exit status.
kill_ignores_status(pid, force, run) ==
    LET signal_arg == IF force THEN "-9" ELSE "-15"
        action == IF force THEN "force killed" ELSE "gracefully terminated"
        cmd == Cmd("kill", <<signal_arg, Str(pid)>>, run)
    IN  IF ~ParseU32(pid).ok
        THEN [ret |-> Err(Msg("Invalid PID format: {}", <<Str(pid)>>)),
              io |-> <<>>]
        ELSE IF run.status = "spawn_err"
        THEN [ret |-> Err(Msg("Failed to execute kill command: {}",
                              <<Str(run.err)>>)),
              io |-> <<cmd>>]
        ELSE [ret |-> Ok(Msg("Process {} {} successfully", <<Str(pid), action>>)),
              io |-> <<cmd>>]

\* Internal function to kill process with specified signal
kill_process_with_signal(pid, force, run) ==
    LET signal_arg == IF force THEN "-9" ELSE "-15"
        verb == IF force THEN "force kill" ELSE "gracefully terminate"
        action == IF force THEN "force killed" ELSE "gracefully terminated"
        cmd == Cmd("kill", <<signal_arg, Str(pid)>>, run)
    IN  IF ~ParseU32(pid).ok
        THEN [ret |-> Err(Msg("Invalid PID format: {}", <<Str(pid)>>)),
              io |-> <<>>]
        ELSE IF run.status = "spawn_err"
        THEN [ret |-> Err(Msg("Failed to execute kill command: {}",
                              <<Str(run.err)>>)),
              io |-> <<cmd>>]
        ELSE IF run.status = "ok"
        THEN [ret |-> Ok(Msg("Process {} {} successfully", <<Str(pid), action>>)),
              io |-> <<cmd>>]
        ELSE [ret |-> Err(Msg("Failed to {} process {}: {}",
                              <<verb, Str(pid), Str(run.stderr)>>)),
              io |-> <<cmd>>]

\* Kill a process by PID using SIGKILL signal (force kill)
kill_process(pid, run) == kill_process_with_signal(pid, TRUE, run)

\* Kill a process by PID using SIGTERM signal (graceful kill)
graceful_kill_process(pid, run) == kill_process_with_signal(pid, FALSE, run)

\* Vec::contains
SeqContains(seq, v) == \E i \in 1..Len(seq) : seq[i] = v

\* Variant of PortLoop: collects a port every time it is seen.
RECURSIVE PortLoopNoDedup(_, _)
PortLoopNoDedup(lines, ports) ==
    IF lines = <<>> THEN ports
    ELSE LET parts == SplitWhitespace(Head(lines))
             name_field == parts[9]
             port_num == ParseU16(SplitLast(name_field, ":"))
         IN  IF /\ Len(parts) >= 9
                /\ Contains(name_field, <<":">>)
                /\ port_num.ok
             THEN PortLoopNoDedup(Tail(lines), Append(ports, port_num.val))
             ELSE PortLoopNoDedup(Tail(lines), ports)

RECURSIVE PortLoop(_, _)
PortLoop(lines, ports) ==
    IF lines = <<>> THEN ports
    ELSE LET parts == SplitWhitespace(Head(lines))
             name_field == parts[9]
             port_num == ParseU16(SplitLast(name_field, ":"))
         IN  IF /\ Len(parts) >= 9
                /\ Contains(name_field, <<":">>)
                /\ port_num.ok
                /\ ~SeqContains(ports, port_num.val)
             THEN PortLoop(Tail(lines), Append(ports, port_num.val))
             ELSE PortLoop(Tail(lines), ports)

\* Variant of get_process_port: joins the ports whenever lsof succeeded,
\* also when none was found.
get_process_port_joins_empty(pid, run) ==
    LET cmd == Cmd("lsof", <<"-p", Str(pid), "-P", "-n", "-iTCP">>, run)
        ports == PortLoop(Skip1(Lines(run.stdout)), <<>>)
    IN  IF run.status = "ok"
        THEN [ret |-> Some(Join(ports, <<",", " ">>)), io |-> <<cmd>>]
        ELSE [ret |-> None, io |-> <<cmd>>]

get_process_port(pid, run) ==
    LET cmd == Cmd("lsof", <<"-p", Str(pid), "-P", "-n", "-iTCP">>, run)
        ports == PortLoop(Skip1(Lines(run.stdout)), <<>>)
    IN  IF run.status = "ok" /\ ports # <<>>
        THEN [ret |-> Some(Join(ports, <<",", " ">>)), io |-> <<cmd>>]
        ELSE [ret |-> None, io |-> <<cmd>>]

ProcessDetail(pid, name, port, user, command, cpu_usage, memory_usage, start_time) ==
    [pid |-> pid, name |-> name, port |-> port, user |-> user,
     command |-> command, cpu_usage |-> cpu_usage,
     memory_usage |-> memory_usage, start_time |-> start_time]

\* Option::unwrap_or_else
UnwrapOr(opt, default) == IF opt = None THEN default ELSE opt[1]

\* Variant of get_process_detail: the start-time call may fail; start_time is
\* then absent.
detail_ignores_time_status(pid, basic, resource, time, lsof) ==
    LET ps_cmds ==
            << Cmd("ps", <<"-p", Str(pid), "-o", "pid=,comm=,user=,args=">>, basic),
               Cmd("ps", <<"-p", Str(pid), "-o", "pid=,pcpu=,pmem=">>, resource),
               Cmd("ps", <<"-p", Str(pid), "-o", "pid=,lstart=">>, time) >>
        basic_parts == SplitWhitespace(Trim(basic.stdout))
        resource_parts == SplitWhitespace(Trim(resource.stdout))
        time_str == Trim(time.stdout)
        usage == IF Len(resource_parts) >= 3
                 THEN << Some(Append(resource_parts[2], "%")),
                         Some(Append(resource_parts[3], "%")) >>
                 ELSE << None, None >>
        first_space == Find(time_str, " ")
        start_time == IF first_space # None
                      THEN Some(SubSeq(time_str, first_space[1] + 2, Len(time_str)))
                      ELSE None
        port_info == get_process_port(pid, lsof)
    IN  IF ~ParseU32(pid).ok
        THEN [ret |-> Err(Msg("Invalid PID format: {}", <<Str(pid)>>)),
              io |-> <<>>]
        ELSE IF \E r \in {basic, resource} : r.status = "spawn_err"
        THEN [ret |-> Err(Msg("Failed to execute ps commands", <<>>)),
              io |-> ps_cmds]
        ELSE IF \E r \in {basic, resource} : r.status # "ok"
        THEN [ret |-> Err(Msg("Failed to get process information for PID: {}",
                              <<Str(pid)>>)),
              io |-> ps_cmds]
        ELSE IF Len(basic_parts) < 4
        THEN [ret |-> Err(Msg("Unable to parse basic process info", <<>>)),
              io |-> ps_cmds]
        ELSE [ret |-> Ok(ProcessDetail(
                          basic_parts[1], basic_parts[2],
                          UnwrapOr(port_info.ret, Unknown),
                          Some(basic_parts[3]),
                          Some(Join(SubSeq(basic_parts, 4, Len(basic_parts)), <<" ">>)),
                          usage[1], usage[2], start_time)),
              io |-> ps_cmds \o port_info.io]

\* Variant of get_process_detail: the resource call may fail; cpu_usage and
\* memory_usage are then absent.
detail_tolerates_resource_failure(pid, basic, resource, time, lsof) ==
    LET ps_cmds ==
            << Cmd("ps", <<"-p", Str(pid), "-o", "pid=,comm=,user=,args=">>, basic),
               Cmd("ps", <<"-p", Str(pid), "-o", "pid=,pcpu=,pmem=">>, resource),
               Cmd("ps", <<"-p", Str(pid), "-o", "pid=,lstart=">>, time) >>
        basic_parts == SplitWhitespace(Trim(basic.stdout))
        resource_parts == SplitWhitespace(Trim(resource.stdout))
        time_str == Trim(time.stdout)
        usage == IF Len(resource_parts) >= 3
                 THEN << Some(Append(resource_parts[2], "%")),
                         Some(Append(resource_parts[3], "%")) >>
                 ELSE << None, None >>
        first_space == Find(time_str, " ")
        start_time == IF first_space # None
                      THEN Some(SubSeq(time_str, first_space[1] + 2, Len(time_str)))
                      ELSE None
        port_info == get_process_port(pid, lsof)
    IN  IF ~ParseU32(pid).ok
        THEN [ret |-> Err(Msg("Invalid PID format: {}", <<Str(pid)>>)),
              io |-> <<>>]
        ELSE IF \E r \in {basic, time} : r.status = "spawn_err"
        THEN [ret |-> Err(Msg("Failed to execute ps commands", <<>>)),
              io |-> ps_cmds]
        ELSE IF \E r \in {basic, time} : r.status # "ok"
        THEN [ret |-> Err(Msg("Failed to get process information for PID: {}",
                              <<Str(pid)>>)),
              io |-> ps_cmds]
        ELSE IF Len(basic_parts) < 4
        THEN [ret |-> Err(Msg("Unable to parse basic process info", <<>>)),
              io |-> ps_cmds]
        ELSE [ret |-> Ok(ProcessDetail(
                          basic_parts[1], basic_parts[2],
                          UnwrapOr(port_info.ret, Unknown),
                          Some(basic_parts[3]),
                          Some(Join(SubSeq(basic_parts, 4, Len(basic_parts)), <<" ">>)),
                          usage[1], usage[2], start_time)),
              io |-> ps_cmds \o port_info.io]

\* Variant of get_process_detail: accepts an identity line of three fields.
detail_accepts_three_fields(pid, basic, resource, time, lsof) ==
    LET ps_cmds ==
            << Cmd("ps", <<"-p", Str(pid), "-o", "pid=,comm=,user=,args=">>, basic),
               Cmd("ps", <<"-p", Str(pid), "-o", "pid=,pcpu=,pmem=">>, resource),
               Cmd("ps", <<"-p", Str(pid), "-o", "pid=,lstart=">>, time) >>
        basic_parts == SplitWhitespace(Trim(basic.stdout))
        resource_parts == SplitWhitespace(Trim(resource.stdout))
        time_str == Trim(time.stdout)
        usage == IF Len(resource_parts) >= 3
                 THEN << Some(Append(resource_parts[2], "%")),
                         Some(Append(resource_parts[3], "%")) >>
                 ELSE << None, None >>
        first_space == Find(time_str, " ")
        start_time == IF first_space # None
                      THEN Some(SubSeq(time_str, first_space[1] + 2, Len(time_str)))
                      ELSE None
        port_info == get_process_port(pid, lsof)
    IN  IF ~ParseU32(pid).ok
        THEN [ret |-> Err(Msg("Invalid PID format: {}", <<Str(pid)>>)),
              io |-> <<>>]
        ELSE IF \E r \in {basic, resource, time} : r.status = "spawn_err"
        THEN [ret |-> Err(Msg("Failed to execute ps commands", <<>>)),
              io |-> ps_cmds]
        ELSE IF \E r \in {basic, resource, time} : r.status # "ok"
        THEN [ret |-> Err(Msg("Failed to get process information for PID: {}",
                              <<Str(pid)>>)),
              io |-> ps_cmds]
        ELSE IF Len(basic_parts) < 3
        THEN [ret |-> Err(Msg("Unable to parse basic process info", <<>>)),
              io |-> ps_cmds]
        ELSE [ret |-> Ok(ProcessDetail(
                          basic_parts[1], basic_parts[2],
                          UnwrapOr(port_info.ret, Unknown),
                          Some(basic_parts[3]),
                          Some(Join(SubSeq(basic_parts, 4, Len(basic_parts)), <<" ">>)),
                          usage[1], usage[2], start_time)),
              io |-> ps_cmds \o port_info.io]

\* Get detailed process information using ps command
get_process_detail(pid, basic, resource, time, lsof) ==
    LET ps_cmds ==
            << Cmd("ps", <<"-p", Str(pid), "-o", "pid=,comm=,user=,args=">>, basic),
               Cmd("ps", <<"-p", Str(pid), "-o", "pid=,pcpu=,pmem=">>, resource),
               Cmd("ps", <<"-p", Str(pid), "-o", "pid=,lstart=">>, time) >>
        basic_parts == SplitWhitespace(Trim(basic.stdout))
        resource_parts == SplitWhitespace(Trim(resource.stdout))
        time_str == Trim(time.stdout)
        usage == IF Len(resource_parts) >= 3
                 THEN << Some(Append(resource_parts[2], "%")),
                         Some(Append(resource_parts[3], "%")) >>
                 ELSE << None, None >>
        first_space == Find(time_str, " ")
        start_time == IF first_space # None
                      THEN Some(SubSeq(time_str, first_space[1] + 2, Len(time_str)))
                      ELSE None
        port_info == get_process_port(pid, lsof)
    IN  IF ~ParseU32(pid).ok
        THEN [ret |-> Err(Msg("Invalid PID format: {}", <<Str(pid)>>)),
              io |-> <<>>]
        ELSE IF \E r \in {basic, resource, time} : r.status = "spawn_err"
        THEN [ret |-> Err(Msg("Failed to execute ps commands", <<>>)),
              io |-> ps_cmds]
        ELSE IF \E r \in {basic, resource, time} : r.status # "ok"
        THEN [ret |-> Err(Msg("Failed to get process information for PID: {}",
                              <<Str(pid)>>)),
              io |-> ps_cmds]
        ELSE IF Len(basic_parts) < 4
        THEN [ret |-> Err(Msg("Unable to parse basic process info", <<>>)),
              io |-> ps_cmds]
        ELSE [ret |-> Ok(ProcessDetail(
                          basic_parts[1], basic_parts[2],
                          UnwrapOr(port_info.ret, Unknown),
                          Some(basic_parts[3]),
                          Some(Join(SubSeq(basic_parts, 4, Len(basic_parts)), <<" ">>)),
                          usage[1], usage[2], start_time)),
              io |-> ps_cmds \o port_info.io]

(***************************************************************************)
(* The state machine: a caller invokes one operation, the operation runs   *)
(* to completion (spawning and awaiting its commands), the result goes     *)
(* back to the caller, and nothing is retained.                            *)
(***************************************************************************)
VARIABLES
    pc,     \* "idle", or "returned" when a call has produced its result
    call,   \* the operation called and its arguments
    ret,    \* the value it returned
    io      \* the commands it spawned, in order

vars == <<pc, call, ret, io>>

NoCall == [op |-> "none"]

Init ==
    /\ pc = "idle"
    /\ call = NoCall
    /\ ret = <<>>
    /\ io = <<>>

Finish(c, r) ==
    /\ pc' = "returned"
    /\ call' = c
    /\ ret' = r.ret
    /\ io' = r.io

ParseLsofOutput ==
    /\ pc = "idle"
    /\ \E output \in Texts, port \in PortLabels :
          Finish([op |-> "parse_lsof_output", output |-> output, port |-> port],
                 [ret |-> parse_lsof_output(output, port), io |-> <<>>])

ParsePsOutput ==
    /\ pc = "idle"
    /\ \E output \in Texts, search_name \in SearchNames :
          Finish([op |-> "parse_ps_output", output |-> output,
                  search_name |-> search_name],
                 [ret |-> parse_ps_output(output, search_name), io |-> <<>>])

CheckPort ==
    /\ pc = "idle"
    /\ \E port \in PortArgs, run \in TextRuns :
          Finish([op |-> "check_port", port |-> port], check_port(port, run))

SearchProcessesByName ==
    /\ pc = "idle"
    /\ \E process_name \in SearchNames, run \in TextRuns :
          Finish([op |-> "search_processes_by_name", process_name |-> process_name],
                 search_processes_by_name(process_name, run))

KillProcess ==
    /\ pc = "idle"
    /\ \E pid \in PidArgs, run \in KillRuns :
          Finish([op |-> "kill_process", pid |-> pid, force |-> TRUE],
                 kill_process(pid, run))

GracefulKillProcess ==
    /\ pc = "idle"
    /\ \E pid \in PidArgs, run \in KillRuns :
          Finish([op |-> "graceful_kill_process", pid |-> pid, force |-> FALSE],
                 graceful_kill_process(pid, run))

KillProcessWithSignal ==
    /\ pc = "idle"
    /\ \E pid \in PidArgs, force \in BOOLEAN, run \in KillRuns :
          Finish([op |-> "kill_process_with_signal", pid |-> pid, force |-> force],
                 kill_process_with_signal(pid, force, run))

GetProcessDetail ==
    /\ pc = "idle"
    /\ \E pid \in PidArgs, basic \in BasicRuns, resource \in ResourceRuns,
          time \in TimeRuns, lsof \in PortRuns :
          Finish([op |-> "get_process_detail", pid |-> pid],
                 get_process_detail(pid, basic, resource, time, lsof))

\* the result is handed to the caller; no state survives the call
Return ==
    /\ pc = "returned"
    /\ pc' = "idle"
    /\ call' = NoCall
    /\ ret' = <<>>
    /\ io' = <<>>

Next ==
    \/ ParseLsofOutput
    \/ ParsePsOutput
    \/ CheckPort
    \/ SearchProcessesByName
    \/ KillProcess
    \/ GracefulKillProcess
    \/ KillProcessWithSignal
    \/ GetProcessDetail
    \/ Return

Spec == Init /\ [][Next]_vars

(***************************************************************************)
(* Properties.                                                             *)
(***************************************************************************)
Returned(op) == pc = "returned" /\ call.op = op

\* the fields of each line after the header
BodyParts(output) ==
    LET ls == Lines(output)
    IN  [i \in 1..(Len(ls) - 1) |-> SplitWhitespace(ls[i + 1])]

\* the body lines that carry the first occurrence of their process id
FirstSeen(body) ==
    { i \in DOMAIN body :
        /\ Len(body[i]) >= 2
        /\ \A j \in 1..(i - 1) : Len(body[j]) >= 2 => body[j][2] # body[i][2] }

\* the k-th smallest element of a set of indices
Nth(S, k) == CHOOSE i \in S : Cardinality({ j \in S : j < i }) = k - 1

\* C1: parse_lsof_output returns exactly the first occurrences of each
\* process id among the lines after the header that have at least two
\* fields: no pid twice, each with the name of the first line carrying that
\* pid, in first-seen order.
C1_FirstOccurrences ==
    Returned("parse_lsof_output") =>
        LET body == BodyParts(call.output)
            F == FirstSeen(body)
        IN  /\ Len(ret) = Cardinality(F)
            /\ \A k \in 1..Len(ret) :
                  /\ ret[k].pid = body[Nth(F, k)][2]
                  /\ ret[k].name = body[Nth(F, k)][1]
            /\ \A k1, k2 \in 1..Len(ret) : k1 # k2 => ret[k1].pid # ret[k2].pid

\* a pid appears on two body lines under different names, and a second
\* process follows
C1_Witness ==
    /\ Returned("parse_lsof_output")
    /\ Len(ret) >= 2
    /\ LET body == BodyParts(call.output)
       IN  \E i, j \in DOMAIN body :
              /\ i < j /\ Len(body[i]) >= 2 /\ Len(body[j]) >= 2
              /\ body[i][2] = body[j][2] /\ body[i][1] # body[j][1]

RemoveAt(seq, i) == SubSeq(seq, 1, i - 1) \o SubSeq(seq, i + 1, Len(seq))

\* the lines after the header with fewer than two fields
MalformedAt(output) ==
    LET ls == Lines(output)
    IN  { i \in 2..Len(ls) : Len(SplitWhitespace(ls[i])) < 2 }

\* C2: a line with fewer than two fields changes nothing: the records are
\* those of the text with that line deleted from the body; an empty or
\* header-only text yields no record.
C2_MalformedSkipped ==
    Returned("parse_lsof_output") =>
        LET ls == Lines(call.output)
        IN  /\ \A i \in MalformedAt(call.output) :
                  ret = parse_lsof_output(Join(RemoveAt(ls, i), <<NL>>), call.port)
            /\ Len(ls) <= 1 => ret = <<>>

\* a malformed line stands between the header and a line that is parsed
C2_Witness ==
    /\ Returned("parse_lsof_output")
    /\ ret # <<>>
    /\ \E i \in MalformedAt(call.output) :
          \E j \in (i + 1)..Len(Lines(call.output)) :
              Len(SplitWhitespace(Lines(call.output)[j])) >= 2

PidsAndNames(processes) ==
    [k \in 1..Len(processes) |-> <<processes[k].pid, processes[k].name>>]

\* C3: every record carries the caller's port label, whatever the line
\* holds; another label gives the same pids and names.
C3_PortIsLabel ==
    Returned("parse_lsof_output") =>
        /\ \A k \in 1..Len(ret) : ret[k].port = call.port
        /\ \A other \in PortLabels :
              PidsAndNames(parse_lsof_output(call.output, other)) = PidsAndNames(ret)

\* records were parsed from lines none of whose fields is the label
C3_Witness ==
    /\ Returned("parse_lsof_output")
    /\ Len(ret) >= 2
    /\ \A i \in DOMAIN BodyParts(call.output) :
          ~SeqContains(BodyParts(call.output)[i], call.port)

\* the lines whose second field, lower-cased, contains the lower-cased search
PsMatches(output, search_name) ==
    LET ls == Lines(output)
    IN  { i \in 1..Len(ls) :
            LET parts == SplitWhitespace(ls[i])
            IN  /\ Len(parts) >= 2
                /\ Contains(ToLowercase(parts[2]), ToLowercase(search_name)) }

\* C4: for a non-blank search, parse_ps_output returns, in line order and
\* without deduplication, one record per line with at least two fields whose
\* second field contains the search (case-insensitively); pid is field 0,
\* name is field 1 in its original case, port is "Unknown".
C4_PsMatchesInOrder ==
    (Returned("parse_ps_output") /\ ~TrimIsEmpty(call.search_name)) =>
        LET ls == Lines(call.output)
            M == PsMatches(call.output, call.search_name)
        IN  /\ Len(ret) = Cardinality(M)
            /\ \A k \in 1..Len(ret) :
                  LET parts == SplitWhitespace(ls[Nth(M, k)])
                  IN  ret[k] = [pid |-> parts[1], name |-> parts[2], port |-> Unknown]

\* the same line matched twice, against a name in another case than the search
C4_Witness ==
    /\ Returned("parse_ps_output")
    /\ ~TrimIsEmpty(call.search_name)
    /\ Len(ret) >= 2
    /\ ret[1] = ret[2]
    /\ ~Contains(ret[1].name, call.search_name)

\* C5: an empty or whitespace-only search string matches nothing.
C5_BlankSearchMatchesNothing ==
    (Returned("parse_ps_output") /\ TrimIsEmpty(call.search_name)) => ret = <<>>

\* C6: every result of check_port has is_occupied = (processes non-empty).
C6_OccupiedIffNonEmpty ==
    Returned("check_port") => (ret.is_occupied <=> ret.processes # <<>>)

\* lsof succeeded on a valid port and printed only lines that yield no record
C6_Witness ==
    /\ Returned("check_port")
    /\ io # <<>>
    /\ io[1].run.status = "ok"
    /\ Len(Lines(io[1].run.stdout)) >= 2
    /\ ~ret.is_occupied

\* C7: a port that is no u16 gives is_occupied = false, no process, the
\* error "Invalid port number", and lsof is not invoked.
C7_InvalidPortRejected ==
    (Returned("check_port") /\ ~ParseU16(call.port).ok) =>
        /\ ret = PortCheckResult(FALSE, <<>>, Some(Msg("Invalid port number", <<>>)))
        /\ io = <<>>

\* the call was made with a number just above the u16 range
C7_Witness ==
    /\ Returned("check_port")
    /\ call.port = <<"6", "5", "5", "3", "6">>
    /\ ret.error # None

\* C8: for a valid port: lsof not invocable -> not occupied, no process,
\* error set; failing exit status -> not occupied, no process, no error;
\* success -> no error, also when nothing was parsed.  An error is set
\* only for an invalid port or an invocation failure.
C8_LsofOutcomeClassified ==
    Returned("check_port") =>
        /\ ParseU16(call.port).ok =>
              /\ Len(io) = 1
              /\ io[1].prog = "lsof"
              /\ io[1].run.status = "spawn_err" =>
                    /\ ~ret.is_occupied /\ ret.processes = <<>> /\ ret.error # None
              /\ io[1].run.status = "exit_fail" =>
                    /\ ~ret.is_occupied /\ ret.processes = <<>> /\ ret.error = None
              /\ io[1].run.status = "ok" => ret.error = None
        /\ ret.error # None =>
              \/ ~ParseU16(call.port).ok
              \/ io[1].run.status = "spawn_err"

\* lsof ran for a valid port, failed with a diagnostic, and no error is reported
C8_Witness ==
    /\ Returned("check_port")
    /\ io # <<>>
    /\ io[1].run.status = "exit_fail"
    /\ io[1].run.stderr # <<>>
    /\ ret.error = None

\* C9: search_processes_by_name rejects a blank name with an error and an
\* empty list before ps is invoked; otherwise failure to invoke ps and a
\* failing exit status both give an error with an empty list, and success
\* gives no error and the parser's records.
C9_SearchOutcomeClassified ==
    Returned("search_processes_by_name") =>
        IF TrimIsEmpty(call.process_name)
        THEN ret.error # None /\ ret.processes = <<>> /\ io = <<>>
        ELSE /\ Len(io) = 1
             /\ io[1].prog = "ps"
             /\ io[1].run.status \in {"spawn_err", "exit_fail"} =>
                   ret.error # None /\ ret.processes = <<>>
             /\ io[1].run.status = "ok" =>
                   /\ ret.error = None
                   /\ ret.processes = parse_ps_output(io[1].run.stdout, call.process_name)

\* ps ran for a non-blank name and exited with a failing status
C9_Witness ==
    /\ Returned("search_processes_by_name")
    /\ io # <<>>
    /\ io[1].run.status = "exit_fail"
    /\ ret.error # None

\* the invalid process ids the specification lists
InvalidPidExamples ==
    { <<"a", "b", "c">>, <<>>, <<"1", "2", ".", "3", "4">>, <<"-", "1">>,
      <<"9", "9", "9", "9", "9", "9", "9", "9", "9", "9", "9">> }

PidOps ==
    { "kill_process", "graceful_kill_process", "kill_process_with_signal",
      "get_process_detail" }

\* C10: for a pid that is no u32 (the listed examples are none), terminate
\* and get_process_detail fail with "Invalid PID format" and spawn nothing.
C10_InvalidPidRejected ==
    /\ \A p \in InvalidPidExamples : p \in PidArgs /\ ~ParseU32(p).ok
    /\ (pc = "returned" /\ call.op \in PidOps /\ ~ParseU32(call.pid).ok) =>
          /\ ~ret.ok
          /\ ret.val.fmt = "Invalid PID format: {}"
          /\ io = <<>>

\* a graceful terminate was called with a pid above the u32 range
C10_Witness ==
    /\ Returned("kill_process_with_signal")
    /\ ~call.force
    /\ call.pid = <<"4", "2", "9", "4", "9", "6", "7", "2", "9", "6">>
    /\ ~ret.ok

KillOps == { "kill_process", "graceful_kill_process", "kill_process_with_signal" }

ReturnedKill == pc = "returned" /\ call.op \in KillOps

\* C11: for a valid pid, one terminate call spawns kill exactly once, for
\* that pid, with -9 when forceful and -15 when not; whatever the outcome
\* there is no second attempt, and a graceful call never sends -9.
C11_OneSignalNoEscalation ==
    (ReturnedKill /\ ParseU32(call.pid).ok) =>
        /\ Len(io) = 1
        /\ io[1].prog = "kill"
        /\ io[1].args = << IF call.force THEN "-9" ELSE "-15", Str(call.pid) >>
        /\ ~call.force => \A i \in 1..Len(io) : io[i].args[1] # "-9"
        /\ call.op = "kill_process" => call.force
        /\ call.op = "graceful_kill_process" => ~call.force

\* the graceful command was called and its SIGTERM delivery failed
C11_Witness ==
    /\ Returned("graceful_kill_process")
    /\ io # <<>>
    /\ io[1].args[1] = "-15"
    /\ io[1].run.status = "exit_fail"

\* C12: for a valid pid, terminate succeeds iff kill could be spawned and
\* exited with success; both kinds of failure carry the diagnostic text;
\* the success message names the pid and "force killed" or "gracefully
\* terminated".
C12_KillOutcomeClassified ==
    (ReturnedKill /\ ParseU32(call.pid).ok) =>
        /\ ret.ok <=> io[1].run.status = "ok"
        /\ io[1].run.status = "spawn_err" =>
              ret.val.args[Len(ret.val.args)] = Str(io[1].run.err)
        /\ io[1].run.status = "exit_fail" =>
              /\ ret.val.args[Len(ret.val.args)] = Str(io[1].run.stderr)
              /\ ret.val.fmt = "Failed to {} process {}: {}"
        /\ ret.ok =>
              /\ ret.val.fmt = "Process {} {} successfully"
              /\ ret.val.args[1] = Str(call.pid)
              /\ ret.val.args[2] = IF call.force THEN "force killed"
                                   ELSE "gracefully terminated"

\* kill ran for a valid pid and exited with a failing status and a diagnostic
C12_Witness ==
    /\ ReturnedKill
    /\ io # <<>>
    /\ io[1].run.status = "exit_fail"
    /\ io[1].run.stderr # <<>>
    /\ ~ret.ok

ReturnedDetail ==
    /\ Returned("get_process_detail")
    /\ ParseU32(call.pid).ok

\* the ps calls (1 identity, 2 resource usage, 3 start time) that failed
FailedStages(runs) == { k \in 1..3 : runs[k].status # "ok" }

IoRuns == [k \in 1..Len(io) |-> io[k].run]

\* the failure description is one that only this set of failed stages gives
DescriptionNamesStages ==
    \A b \in BasicRuns, r \in ResourceRuns, t \in TimeRuns :
        LET lsof_unused == CHOOSE l \in Failures : TRUE
            other == get_process_detail(call.pid, b, r, t, lsof_unused).ret
        IN  (~other.ok /\ other.val = ret.val) =>
                FailedStages(<<b, r, t>>) = FailedStages(IoRuns)

\* C13 as stated: a record only if all three ps calls succeeded; if any
\* fails the call fails and its description identifies the stage that failed.
C13_FailureNamesStage ==
    ReturnedDetail =>
        /\ ret.ok => FailedStages(IoRuns) = {}
        /\ FailedStages(IoRuns) # {} => (~ret.ok /\ DescriptionNamesStages)

\* C13, amended: a record only if all three ps calls succeeded; if any fails
\* the call fails, with "Failed to execute ps commands" when one could not
\* be spawned and otherwise "Failed to get process information for PID",
\* neither of which says which stage failed.
C13_AllThreeRequired ==
    ReturnedDetail =>
        /\ Len(io) >= 3
        /\ \A k \in 1..3 : io[k].prog = "ps"
        /\ ret.ok => FailedStages(IoRuns) = {}
        /\ (\E k \in 1..3 : io[k].run.status = "spawn_err") =>
              ret = Err(Msg("Failed to execute ps commands", <<>>))
        /\ (/\ FailedStages(IoRuns) # {}
            /\ \A k \in 1..3 : io[k].run.status # "spawn_err") =>
              ret = Err(Msg("Failed to get process information for PID: {}",
                            <<Str(call.pid)>>))

\* only the start-time call failed, after identity and resource succeeded
C13_Witness ==
    /\ ReturnedDetail
    /\ FailedStages(IoRuns) = {3}
    /\ Len(SplitWhitespace(io[1].run.stdout)) >= 4
    /\ ~ret.ok

\* C14 as stated: identity succeeded and resource usage failed -> a record
\* with cpu_usage and memory_usage absent; identity failed -> failure.
C14_ResourceFailureDegrades ==
    ReturnedDetail =>
        /\ (1 \notin FailedStages(IoRuns) /\ 2 \in FailedStages(IoRuns)) =>
              /\ ret.ok
              /\ ret.val.cpu_usage = None
              /\ ret.val.memory_usage = None
        /\ 1 \in FailedStages(IoRuns) => ~ret.ok

\* C14, amended: identity succeeded and resource usage failed -> the call
\* fails, no record is returned; identity failed -> failure.
C14_ResourceFailureFails ==
    ReturnedDetail =>
        /\ (1 \notin FailedStages(IoRuns) /\ 2 \in FailedStages(IoRuns)) => ~ret.ok
        /\ 1 \in FailedStages(IoRuns) => ~ret.ok

\* only the resource call failed, with identity complete and start time read
C14_Witness ==
    /\ ReturnedDetail
    /\ FailedStages(IoRuns) = {2}
    /\ Len(SplitWhitespace(io[1].run.stdout)) >= 4
    /\ ~ret.ok

\* the ports of a sequence of fields: for each field with a colon whose text
\* after the last colon is a u16, that number, each once, in first-seen order
PortsOfFields(fields) ==
    LET P(i) == ParseU16(SplitLast(fields[i], ":"))
        H == { i \in 1..Len(fields) : Contains(fields[i], <<":">>) /\ P(i).ok }
        F == { i \in H : \A j \in H : j < i => P(j).val # P(i).val }
    IN  [k \in 1..Cardinality(F) |-> P(Nth(F, k)).val]

\* the text of the port field for a list of ports
PortField(ports) == IF ports = <<>> THEN Unknown ELSE Join(ports, <<",", " ">>)

RECURSIVE Flatten(_)
Flatten(seqs) == IF seqs = <<>> THEN <<>> ELSE Head(seqs) \o Flatten(Tail(seqs))

\* every field of every line after the header
AllFields(output) == Flatten(BodyParts(output))

\* the ninth field of every line after the header that has nine or more
NameFields(output) ==
    LET body == BodyParts(output)
        long == SelectSeq(body, LAMBDA parts : Len(parts) >= 9)
    IN  [k \in 1..Len(long) |-> long[k][9]]

\* the call passed validation, the three ps calls succeeded, the identity
\* line was complete, and the port lookup ran
DetailWithLookup ==
    /\ ReturnedDetail
    /\ ret.ok
    /\ Len(io) = 4

\* C15 as stated: the port field lists the port of every colon-containing
\* field of every non-header line, each once, joined with ", ", in
\* first-seen order, and is "Unknown" exactly when there is none.
C15_PortsOfAnyField ==
    DetailWithLookup =>
        ret.val.port = PortField(PortsOfFields(AllFields(io[4].run.stdout)))

\* C15, amended: when lsof exits with success, the port field lists the port
\* of the ninth field of every non-header line that has nine or more fields;
\* it is "Unknown" when there is none or lsof did not succeed.
C15_PortsOfNameField ==
    DetailWithLookup =>
        /\ io[4].prog = "lsof"
        /\ io[4].args = <<"-p", Str(call.pid), "-P", "-n", "-iTCP">>
        /\ ret.val.port =
              IF io[4].run.status = "ok"
              THEN PortField(PortsOfFields(NameFields(io[4].run.stdout)))
              ELSE Unknown

\* two different ports were found and joined
C15_Witness ==
    /\ DetailWithLookup
    /\ io[4].run.status = "ok"
    /\ Len(PortsOfFields(NameFields(io[4].run.stdout))) = 2
    /\ ret.val.port # Unknown

\* the three ps calls succeeded and the identity line has its four fields
StagesSucceeded ==
    /\ ReturnedDetail
    /\ FailedStages(IoRuns) = {}
    /\ Len(SplitWhitespace(io[1].run.stdout)) >= 4

\* C16: once identity, resource and start time have succeeded, the port
\* lookup cannot fail the call: lsof not invocable, failing, or without a
\* parsable port gives a record with port "Unknown".
C16_LookupNeverFails ==
    StagesSucceeded =>
        /\ ret.ok
        /\ Len(io) = 4
        /\ (\/ io[4].run.status # "ok"
            \/ PortsOfFields(NameFields(io[4].run.stdout)) = <<>>) =>
              ret.val.port = Unknown

\* lsof printed a socket line but exited with a failing status
C16_Witness ==
    /\ StagesSucceeded
    /\ Len(io) = 4
    /\ io[4].run.status = "exit_fail"
    /\ io[4].run.stdout # <<>>
    /\ ret.ok
    /\ ret.val.port = Unknown

HasSpace(s) == \E i \in 1..Len(s) : s[i] = " "

\* C17: with all three ps calls successful, an identity output of fewer than
\* four fields fails the call; a resource output of fewer than three fields
\* leaves cpu_usage and memory_usage absent, a start-time output without a
\* space after the pid leaves start_time absent, and the call succeeds.
C17_RequiredVersusOptional ==
    (ReturnedDetail /\ FailedStages(IoRuns) = {}) =>
        LET basic_fields == SplitWhitespace(io[1].run.stdout)
            resource_fields == SplitWhitespace(io[2].run.stdout)
            time_text == Trim(io[3].run.stdout)
        IN  /\ Len(basic_fields) < 4 =>
                  ret = Err(Msg("Unable to parse basic process info", <<>>))
            /\ Len(basic_fields) >= 4 =>
                  /\ ret.ok
                  /\ Len(resource_fields) < 3 =>
                        ret.val.cpu_usage = None /\ ret.val.memory_usage = None
                  /\ Len(resource_fields) >= 3 =>
                        ret.val.cpu_usage # None /\ ret.val.memory_usage # None
                  /\ ret.val.start_time = None <=> ~HasSpace(time_text)

\* a record came back without usage and without start time
C17_Witness ==
    /\ ReturnedDetail
    /\ ret.ok
    /\ ret.val.cpu_usage = None
    /\ ret.val.memory_usage = None
    /\ ret.val.start_time = None
    /\ ret.val.user # None

\* the process ids the test suite lists as invalid formats
TestInvalidFormats ==
    { <<"0">>, <<"-", "1">>, <<"1", ".", "5">>, <<"1", "e", "5">>,
      <<"p", "i", "d", "1", "2", "3">>, <<"1", "2", "3", "p", "i", "d">>,
      <<" ", "1", "2", "3", " ">>,
      <<"9", "9", "9", "9", "9", "9", "9", "9", "9", "9", "9">> }

\* C18: terminate rejects every process id the test suite lists as an
\* invalid format, so no signal is delivered for any of them.
C18_ListedFormatsRejected ==
    (ReturnedKill /\ call.pid \in TestInvalidFormats) =>
        /\ ~ret.ok
        /\ io = <<>>

\* C19: a result of check_port or search_processes_by_name that carries an
\* error carries no process (and check_port reports not occupied).
C19_ErrorMeansNoProcesses ==
    /\ Returned("check_port") =>
          (ret.error # None => (ret.processes = <<>> /\ ~ret.is_occupied))
    /\ Returned("search_processes_by_name") =>
          (ret.error # None => ret.processes = <<>>)

\* a blank name was refused by the search
C19_Witness ==
    /\ Returned("search_processes_by_name")
    /\ TrimIsEmpty(call.process_name)
    /\ ret.error # None
    /\ ret.processes = <<>>

====
